---- MODULE Spec2Model ----
(***************************************************************************)
(* Model of the SHF CSV ingestion pipeline of prop-trenz                   *)
(* (src/lib/data-processor.ts) running against the relational storage      *)
(* described by the schema in src/database/ACCOUNT_DELETION.md.            *)
(*                                                                         *)
(* One ingestion run is processSHFCSV -> processCSV.  JavaScript runs the  *)
(* code between two awaits atomically, so there is one action per awaited  *)
(* storage call; every call may succeed, return an error, or throw.        *)
(***************************************************************************)
EXTENDS Integers, Sequences, FiniteSets, TLC

(***************************************************************************)
(* Bounds of the model.                                                    *)
(***************************************************************************)
\* data lines per file (the header line comes on top)
MaxLines == 2
\* ingestion runs, one after the other
MaxRuns == 2
\* storage calls that fail in one behaviour
MaxFaults == 1
\* records per upsert; the code uses 1000 (data-processor.ts:397), scaled
\* down so that a file of MaxLines lines is written in several batches
BatchSize == 1

(***************************************************************************)
(* JavaScript and SQL values that are not text or numbers.                 *)
(***************************************************************************)
Undefined == "<undefined>"
Null == "<null>"
\* parseInt/parseFloat of text that is not a number; no number of the model
\* is negative
NaN == -1

(***************************************************************************)
(* Text.  TLC has no operations on the characters of a string, so the      *)
(* string functions of the code are given by their values on the texts     *)
(* that occur in the files of the model.                                   *)
(***************************************************************************)
\* String.prototype.trim
Trim(s) == IF s = "  " THEN "" ELSE s

\* parseInt(s): the integer the text starts with, NaN if there is none
parseInt(s) ==
    CASE s = "1" -> 1
      [] s = "2" -> 2
      [] s = "3" -> 3
      [] s = "4" -> 4
      [] s = "5" -> 5
      [] s = "6" -> 6
      [] s = "7" -> 7
      [] s = "8" -> 8
      [] s = "9" -> 9
      [] s = "0" -> 0
      [] s = "10" -> 10
      [] s = "11" -> 11
      [] s = "12" -> 12
      [] s = "13" -> 13
      [] s = "14" -> 14
      [] s = "15" -> 15
      [] s = "16" -> 16
      [] s = "17" -> 17
      [] s = "18" -> 18
      [] s = "19" -> 19
      [] s = "20" -> 20
      [] s = "21" -> 21
      [] s = "2020" -> 2020
      [] s = "2021" -> 2021
      [] s = "1999" -> 1999
      [] OTHER -> NaN

\* x || 0 on a number: NaN and 0 are falsy
OrZero(n) == IF n = NaN THEN 0 ELSE n

\* the index text is left as it is written
ReplaceCommaNone(s) == s

\* indice.replace(',', '.'): the first comma becomes a point
ReplaceComma(s) ==
    CASE s = "150,25" -> "150.25"
      [] s = "100,00" -> "100.00"
      [] s = "200,00" -> "200.00"
      [] OTHER -> s

\* parseFloat(s), in hundredths: the longest numeric prefix, NaN if none
parseFloat(s) ==
    CASE s = "150.25" -> 15025
      [] s = "100.00" -> 10000
      [] s = "200.00" -> 20000
      [] s = "150,25" -> 15000
      [] s = "100,00" -> 10000
      [] s = "200,00" -> 20000
      [] s = "0" -> 0
      [] OTHER -> NaN

\* convertToUTF8: the mis-encoded fragments and the place names that lost
\* their accent are restored, every other text is returned as it is
convertToUTF8(s) ==
    CASE s = "Nuevo Len" -> "Nuevo León"
      [] s = "Mxico" -> "México"
      [] s = "ZM Len" -> "ZM León"
      [] OTHER -> s

normalizeText(s) == IF s = "" THEN s ELSE convertToUTF8(s)

\* s.startsWith('ZM ')
StartsWithZM(s) == s \in {"ZM Guadalajara", "ZM Len", "ZM León"}

\* s.split('|'): the parts of a text between its bars
SplitBar(s) == IF s = "A|B" THEN <<"A", "B">> ELSE <<s>>

(***************************************************************************)
(* The property-type label table of the processor.                         *)
(***************************************************************************)
propertyTypeLabels ==
    {"Nueva", "Usada", "Casa sola", "Casa en condominio - depto.",
     "Media - Residencial"}

propertyTypeMap(label) ==
    CASE label = "Nueva" -> "nueva"
      [] label = "Usada" -> "usada"
      [] label = "Casa sola" -> "casa_sola"
      [] label = "Casa en condominio - depto." -> "condominio"
      [] label = "Media - Residencial" -> "media_residencial"

\* rows of residential_property_types inserted by the schema
SeededPropertyTypes ==
    { [id |-> "pt-nueva", name |-> "nueva"],
      [id |-> "pt-usada", name |-> "usada"],
      [id |-> "pt-casa_sola", name |-> "casa_sola"],
      [id |-> "pt-condominio", name |-> "condominio"] }

(***************************************************************************)
(* Files.  A line is the sequence of its ';'-separated columns; a blank    *)
(* line is the one empty column.                                           *)
(***************************************************************************)
HeaderLine ==
    <<"Consecutivo", "Global", "Estado", "Municipio", "Trimestre", "Ano", "Indice">>

DataLines ==
    { <<"1", "Nacional", "", "", "2", "2020", "150,25">>,
      <<"2", "Usada", "", "", "1", "2020", "100,00">>,
      <<"3", "Usada", "Jalisco", "Guadalajara", "1", "2020", "100,00">>,
      <<"4", "Usada", "Jalisco", "Guadalajara", "1", "2020", "200,00">>,
      <<"5", "", "Jalisco", "", "1", "2020", "100,00">>,
      <<"6", "ZM Guadalajara", "", "", "1", "2020", "100,00">>,
      <<"7", "Economica - Social", "Jalisco", "", "1", "2020", "100,00">>,
      <<"8", "Nacional", "", "", "1">> }

RECURSIVE SeqsUpTo(_, _)
SeqsUpTo(S, n) ==
    IF n = 0 THEN {<<>>}
    ELSE LET shorter == SeqsUpTo(S, n - 1)
         IN  shorter \cup {Append(s, x) : s \in shorter, x \in S}

Files == {<<HeaderLine>> \o body : body \in SeqsUpTo(DataLines, MaxLines)}

(***************************************************************************)
(* parseCSV: the rows of a file.                                           *)
(***************************************************************************)
\* lines[i].trim() is empty
IsBlankLine(line) == Len(line) = 1 /\ Trim(line[1]) = ""

\* x || d on a text: the empty text is falsy
OrText(s, d) == IF s = "" THEN d ELSE s

ParseLine(columns) ==
    [ consecutivo |-> OrZero(parseInt(columns[1])),
      global      |-> normalizeText(Trim(columns[2])),
      estado      |-> normalizeText(Trim(columns[3])),
      municipio   |-> normalizeText(Trim(columns[4])),
      trimestre   |-> OrZero(parseInt(columns[5])),
      anio        |-> OrZero(parseInt(columns[6])),
      indice      |-> ReplaceComma(OrText(Trim(columns[7]), "0")) ]

RECURSIVE ParseFrom(_, _)
ParseFrom(lines, i) ==
    IF i > Len(lines) THEN <<>>
    ELSE IF IsBlankLine(lines[i]) \/ Len(lines[i]) < 7
         THEN ParseFrom(lines, i + 1)
         ELSE <<ParseLine(lines[i])>> \o ParseFrom(lines, i + 1)

\* the loop starts at the first line
parseCSVFromFirst(csvContent) == ParseFrom(csvContent, 1)

\* the loop starts at the second line
parseCSV(csvContent) == ParseFrom(csvContent, 2)

(***************************************************************************)
(* processCSV: the residential rows.                                       *)
(***************************************************************************)
\* the filter without its first condition
IsResidentialNoExclusion(row) ==
    \/ row.global = "Media - Residencial"
    \/ row.global \in propertyTypeLabels
    \/ row.global = "Nacional"
    \/ StartsWithZM(row.global)
    \/ Trim(row.estado) # ""
    \/ Trim(row.municipio) # ""

IsResidential(row) ==
    /\ row.global # "Economica - Social"
    /\ \/ row.global = "Media - Residencial"
       \/ row.global \in propertyTypeLabels
       \/ row.global = "Nacional"
       \/ StartsWithZM(row.global)
       \/ Trim(row.estado) # ""
       \/ Trim(row.municipio) # ""

residentialRowsOf(rows) == SelectSeq(rows, IsResidential)

(***************************************************************************)
(* Location keys.  A key is the text name|type|state; it is kept as the    *)
(* sequence of its parts between the bars, which is what split('|') reads. *)
(***************************************************************************)
KeyText(name, type, state) == SplitBar(name) \o <<type>> \o SplitBar(state)

NoKey == <<>>

\* the rules for a state come before the rules for the category
ResolverKeyStateFirst(row) ==
    IF row.estado # "" /\ Trim(row.estado) # "" /\ row.municipio = ""
         THEN KeyText(row.estado, "state", "")
    ELSE IF row.estado # "" /\ Trim(row.estado) # ""
            /\ row.municipio # "" /\ Trim(row.municipio) # ""
         THEN KeyText(row.municipio, "municipality", row.estado)
    ELSE IF row.global = "Nacional" THEN KeyText("Nacional", "national", "")
    ELSE IF StartsWithZM(row.global) THEN KeyText(row.global, "metro_zone", "")
    ELSE IF row.global \in propertyTypeLabels \/ row.global = "Media - Residencial"
         THEN KeyText("Nacional", "national", "")
    ELSE NoKey

\* processLocations: the key a row adds to locationSet, NoKey if none
ResolverKey(row) ==
    IF row.global = "Nacional" THEN KeyText("Nacional", "national", "")
    ELSE IF StartsWithZM(row.global) THEN KeyText(row.global, "metro_zone", "")
    ELSE IF row.estado # "" /\ Trim(row.estado) # "" /\ row.municipio = ""
         THEN KeyText(row.estado, "state", "")
    ELSE IF row.estado # "" /\ Trim(row.estado) # ""
            /\ row.municipio # "" /\ Trim(row.municipio) # ""
         THEN KeyText(row.municipio, "municipality", row.estado)
    ELSE IF row.global \in propertyTypeLabels \/ row.global = "Media - Residencial"
         THEN KeyText("Nacional", "national", "")
    ELSE NoKey

\* processPriceData: the key a row is looked up with, NoKey if it is skipped
BuilderKey(row) ==
    IF row.global = "Nacional" THEN KeyText("Nacional", "national", "")
    ELSE IF StartsWithZM(row.global) THEN KeyText(row.global, "metro_zone", "")
    ELSE IF row.estado # "" /\ row.municipio = ""
         THEN KeyText(row.estado, "state", "")
    ELSE IF row.estado # "" /\ row.municipio # ""
         THEN KeyText(row.municipio, "municipality", row.estado)
    ELSE NoKey

\* a Set keeps the first occurrence of every element, in insertion order
RECURSIVE AddAll(_, _, _)
AddAll(rows, i, acc) ==
    IF i > Len(rows) THEN acc
    ELSE LET k == ResolverKey(rows[i])
         IN  IF k = NoKey \/ (\E j \in 1..Len(acc) : acc[j] = k)
             THEN AddAll(rows, i + 1, acc)
             ELSE AddAll(rows, i + 1, Append(acc, k))

\* the keys collected in an array: one entry per row, duplicates kept
RECURSIVE KeysFrom(_, _)
KeysFrom(rows, i) ==
    IF i > Len(rows) THEN <<>>
    ELSE IF ResolverKey(rows[i]) = NoKey THEN KeysFrom(rows, i + 1)
    ELSE <<ResolverKey(rows[i])>> \o KeysFrom(rows, i + 1)

locationListOf(rows) == KeysFrom(rows, 1)

locationSetOf(rows) == AddAll(rows, 1, <<>>)

\* const [name, type, state] = locationKey.split('|')
LocationOfKey(parts) ==
    [ type  |-> parts[2],
      name  |-> normalizeText(Trim(parts[1])),
      state |-> IF parts[3] # "" THEN normalizeText(parts[3]) ELSE Undefined ]

locationsToCreateOf(rows) ==
    LET keys == locationSetOf(rows)
    IN  [i \in 1..Len(keys) |-> LocationOfKey(keys[i])]

\* the key locationMap.set is called with
MapKey(location) ==
    KeyText(location.name, location.type,
            IF location.state = Undefined THEN "" ELSE location.state)

(***************************************************************************)
(* Storage.                                                                *)
(***************************************************************************)
\* no identifier: createdLog?.id of no row, locationMap.get of no entry
NoId == 0

\* insert(location): a property that is undefined is left out of the JSON
\* body, and the column of the new row is NULL
StoredLocation(id, location) ==
    [ id    |-> id,
      name  |-> location.name,
      type  |-> location.type,
      state |-> IF location.state = Undefined THEN Null ELSE location.state ]

\* an insert that leaves the table as it is when a row with the same name,
\* type and state is stored
InsertRowUnlessStored(table, row) ==
    IF \E r \in table : r.name = row.name /\ r.type = row.type /\ r.state = row.state
    THEN table
    ELSE table \cup {row}

\* from('locations').insert(location): the row is added; the table has no
\* constraint on name, type and state
InsertRow(table, row) == table \cup {row}

\* response.data.find(loc => loc.name === ... && loc.state === location.state)
Existing(locs, location) ==
    { loc \in locs : /\ loc.name = location.name
                     /\ loc.type = location.type
                     /\ loc.state = location.state }

\* the columns of a price record as they are stored
StoredValue(v) == IF v = Undefined THEN Null ELSE v

\* CHECK (quarter >= 1 AND quarter <= 4), CHECK (year >= 2005),
\* index_value NOT NULL (NaN is sent as null), location_id REFERENCES locations
RowAccepted(rec, locs) ==
    /\ rec.quarter >= 1 /\ rec.quarter <= 4
    /\ rec.year >= 2005
    /\ rec.index_value # NaN
    /\ \E loc \in locs : loc.id = rec.location_id

\* UNIQUE(location_id, property_type_id, quarter, year): two rows conflict
\* when all four columns are equal, and NULL is equal to nothing
Conflicts(stored, rec) ==
    /\ StoredValue(rec.property_type_id) # Null
    /\ stored.property_type_id = StoredValue(rec.property_type_id)
    /\ stored.location_id = rec.location_id
    /\ stored.quarter = rec.quarter
    /\ stored.year = rec.year

\* INSERT ... ON CONFLICT (location_id, property_type_id, quarter, year)
\* DO UPDATE of the records batch[i..]: one statement, which fails as a whole
\* when a row is rejected or when it would update a row it has already written
RECURSIVE UpsertFrom(_, _, _, _, _, _)
UpsertFrom(batch, i, table, nextId, written, locs) ==
    IF i > Len(batch) THEN [ok |-> TRUE, table |-> table, nextId |-> nextId]
    ELSE LET rec == batch[i]
             hit == {r \in table : Conflicts(r, rec)}
         IN  IF ~RowAccepted(rec, locs) THEN [ok |-> FALSE, table |-> table, nextId |-> nextId]
             ELSE IF hit = {}
             THEN UpsertFrom(batch, i + 1,
                      table \cup {[ id               |-> nextId,
                                    location_id      |-> rec.location_id,
                                    property_type_id |-> StoredValue(rec.property_type_id),
                                    quarter          |-> rec.quarter,
                                    year             |-> rec.year,
                                    index_value      |-> rec.index_value ]},
                      nextId + 1, written \cup {nextId}, locs)
             ELSE IF \E r \in hit : r.id \in written
             THEN [ok |-> FALSE, table |-> table, nextId |-> nextId]
             ELSE UpsertFrom(batch, i + 1,
                      {IF r \in hit THEN [r EXCEPT !.index_value = rec.index_value] ELSE r
                          : r \in table},
                      nextId, written \cup {r.id : r \in hit}, locs)

upsert(batch, table, nextId, locs) ==
    LET res == UpsertFrom(batch, 1, table, nextId, {}, locs)
    IN  IF res.ok THEN res ELSE [ok |-> FALSE, table |-> table, nextId |-> nextId]

\* insert({ filename, status: 'processing', records_processed: 0 });
\* updates counts the later writes of the row
NewLog(filename) ==
    [ filename |-> filename, status |-> "processing", records_processed |-> 0,
      error_message |-> Null, uploaded_by |-> Null, updates |-> 0 ]

\* the trigger refreshes on every update of a row that ends completed
TriggerFiresOnCompleted(old, new) == new.status = "completed"

\* on_upload_completed_refresh_insights: NEW.status = 'completed' AND
\* OLD.status IS DISTINCT FROM NEW.status
TriggerFires(old, new) == new.status = "completed" /\ old.status # new.status

\* AFTER UPDATE ... FOR EACH ROW: the executions of refresh_insights() when
\* the rows `updated` of the log table go from old to new
Refreshes(old, new, updated) ==
    Cardinality({i \in updated \cap DOMAIN new : TriggerFires(old[i], new[i])})

\* the update has no filter on the id: every entry is written
UpdatedLogsAll(logs, id, n) ==
    [ i \in 1..Len(logs) |->
        [logs[i] EXCEPT !.status = "completed",
                        !.records_processed = n,
                        !.updates = @ + 1] ]

\* update({ status: 'completed', records_processed }).eq('id', id)
UpdatedLogs(logs, id, n) ==
    [ i \in 1..Len(logs) |->
        IF i = id THEN [logs[i] EXCEPT !.status = "completed",
                                       !.records_processed = n,
                                       !.updates = @ + 1]
        ELSE logs[i] ]

(***************************************************************************)
(* Results and exceptions.                                                 *)
(***************************************************************************)
Outcomes == {"ok", "error", "throw"}

\* new Error(message)
Error(message) == [isError |-> TRUE, message |-> message]

\* the error object of a storage response; whether it is an instance of
\* Error depends on the version of the client library
StorageError(isError) == [isError |-> isError, message |-> "db error"]

\* what a call throws when the request itself fails
NetworkError == Error("fetch failed")

Pending == [state |-> "pending", success |-> FALSE, recordsProcessed |-> 0, error |-> Undefined]

Fulfilled(success, n, error) ==
    [state |-> "fulfilled", success |-> success, recordsProcessed |-> n, error |-> error]

Rejected(e) ==
    [state |-> "rejected", success |-> FALSE, recordsProcessed |-> 0, error |-> e.message]

\* a catch block that passes on what is no instance of Error
processCSVCatchRethrow(e) ==
    IF e.isError THEN Fulfilled(FALSE, 0, e.message) ELSE Rejected(e)

\* the catch block of processCSV
processCSVCatch(e) ==
    Fulfilled(FALSE, 0, IF e.isError THEN e.message ELSE "Unknown error")

\* the catch block of processSHFCSV
processSHFCSVCatch(e) ==
    Fulfilled(FALSE, 0, IF e.isError THEN e.message ELSE "Failed to read file")

\* return await processor.processCSV(...) inside the try of processSHFCSV
Wrap(p) == IF p.state = "rejected"
           THEN processSHFCSVCatch([isError |-> TRUE, message |-> p.error])
           ELSE p

\* createErr is not looked at and the identifier is read as createdLog?.id
CreateLogThrowsUnchecked(outcome) == outcome = "throw"

\* the insert of the log entry leaves the try block by an exception:
\* the call throws, or it returns an error and line 67 throws
CreateLogThrows(outcome) == outcome # "ok"

\* processPropertyTypes logs the failure of its read and returns
VerifySwallows(outcome) == FALSE

\* processPropertyTypes throws: the call throws, or line 330 throws
VerifyThrows(outcome) == outcome # "ok"

\* updateErr is not looked at: only a call that throws leaves the try block
UpdateLogThrowsUnchecked(outcome) == outcome = "throw"

\* the log update leaves the try block: the call throws, or line 112 throws
UpdateLogThrows(outcome) == outcome # "ok"

\* the identifier of some entry of the map, whatever the key
MapGetAny(map, key) ==
    IF DOMAIN map = {} THEN NoId ELSE map[CHOOSE k \in DOMAIN map : TRUE]

\* locationMap.get(key)
MapGet(map, key) == IF key \in DOMAIN map THEN map[key] ELSE NoId

\* locationMap.set(key, id)
MapSet(map, key, id) == (key :> id) @@ map

\* propertyTypes.data.find(pt => pt.name === name)?.id
PropertyTypeId(types, name) ==
    IF \E pt \in types : pt.name = name
    THEN (CHOOSE pt \in types : pt.name = name).id
    ELSE Undefined

Min(a, b) == IF a < b THEN a ELSE b

(***************************************************************************)
(* State.                                                                  *)
(***************************************************************************)
VARIABLES
    \* storage
    locations,          \* rows of locations
    nextLocId,
    priceIndices,       \* rows of residential_price_indices
    nextPriceId,
    uploadLogs,         \* rows of data_upload_logs, by id
    propertyTypes,      \* rows of residential_property_types
    refreshes,          \* executions of refresh_insights()
    \* the run in progress
    pc,
    bestEncoding,       \* the candidate whose text csvContent is; utf-8 when
                        \* it is the text of the fallback
    decodes,            \* what the decoding with each candidate gave
    csvContent,
    logId,
    rawRows,            \* the rows of the file (rows in processCSV)
    residentialRows,
    locationsToCreate,
    li,                 \* index of the location being reconciled
    locationMap,
    priceDataToInsert,
    ri,                 \* index of the row being built
    bi,                 \* offset of the batch being written
    settled,            \* the promise of processCSV
    wrapped,            \* the promise of processSHFCSV
    \* history of the run in progress
    calls,              \* storage calls issued, in order
    failedCalls,        \* the calls among them that failed
    insertedKeys,       \* keys and identifiers of the locations inserted
    builtFrom,          \* for every record built, the index of its row
    batches,            \* batches attempted, with their outcome
    failedKeys,         \* indexes of the locations whose reconciliation failed
    \* history of the behaviour
    runs,
    faults,
    prev,               \* the run before: its file, whether no call of it failed,
                        \* and storage at its end
    \* a second run, started while the first is waiting for a storage call
    parked,
    \* accounts
    users,              \* rows of users
    userWatchlists,     \* rows of user_watchlists
    deleted,            \* the last call of delete_user_completely, and the
                        \* three tables before it
    \* const batchSize (data-processor.ts:397): the records per upsert, the
    \* same for every run of a behaviour
    batchSize

storageVars == <<locations, nextLocId, priceIndices, nextPriceId, uploadLogs, propertyTypes,
                 refreshes>>
decodeVars == <<bestEncoding, decodes>>
runVars == <<pc, csvContent, logId, rawRows, residentialRows, locationsToCreate, li, locationMap,
             priceDataToInsert, ri, bi, settled, wrapped>>
historyVars == <<calls, failedCalls, insertedKeys, builtFrom, batches, failedKeys,
                 runs, faults, prev>>
accountVars == <<users, userWatchlists, deleted>>
vars == <<storageVars, runVars, historyVars, parked, accountVars, decodeVars, batchSize>>

filename == "shf.csv"

NoPrev == [file |-> <<>>, clean |-> FALSE, prices |-> {}, locations |-> {}, logs |-> <<>>]

\* a run that has not been started
IdleRun ==
    [ pc |-> "idle", bestEncoding |-> "utf-8", decodes |-> <<>>, csvContent |-> <<>>, logId |-> NoId, rawRows |-> <<>>,
      residentialRows |-> <<>>, locationsToCreate |-> <<>>, li |-> 1,
      locationMap |-> <<>>, priceDataToInsert |-> <<>>, ri |-> 1, bi |-> 1,
      settled |-> Pending, wrapped |-> Pending,
      calls |-> <<>>, failedCalls |-> <<>>, insertedKeys |-> <<>>,
      builtFrom |-> <<>>, batches |-> <<>>, failedKeys |-> <<>> ]

\* no call of delete_user_completely yet
NoDeletion == [user_id |-> Null, users |-> {}, userWatchlists |-> {}, uploadLogs |-> <<>>]

\* no run has been started
NoRun ==
    /\ pc = "idle"
    /\ bestEncoding = "utf-8"
    /\ decodes = <<>>
    /\ csvContent = <<>>
    /\ logId = NoId
    /\ rawRows = <<>>
    /\ residentialRows = <<>>
    /\ locationsToCreate = <<>>
    /\ li = 1
    /\ locationMap = <<>>
    /\ priceDataToInsert = <<>>
    /\ ri = 1
    /\ bi = 1
    /\ settled = Pending
    /\ wrapped = Pending
    /\ calls = <<>>
    /\ failedCalls = <<>>
    /\ insertedKeys = <<>>
    /\ builtFrom = <<>>
    /\ batches = <<>>
    /\ failedKeys = <<>>
    /\ runs = 0
    /\ faults = 0
    /\ prev = NoPrev
    /\ parked = IdleRun
    /\ deleted = NoDeletion

Init ==
    /\ locations = {}
    /\ nextLocId = 1
    /\ priceIndices = {}
    /\ nextPriceId = 1
    /\ uploadLogs = <<>>
    /\ propertyTypes = SeededPropertyTypes
    /\ refreshes = 0
    /\ users = {}
    /\ userWatchlists = {}
    /\ batchSize = BatchSize
    /\ NoRun

\* a call may fail while the behaviour has failures left
Fault(outcome) ==
    /\ outcome \in Outcomes
    /\ outcome # "ok" => faults < MaxFaults
    /\ faults' = IF outcome = "ok" THEN faults ELSE faults + 1

\* the storage call `name` is issued and ends with `failed`
Call(name, failed) ==
    /\ calls' = Append(calls, name)
    /\ failedCalls' = IF failed THEN Append(failedCalls, name) ELSE failedCalls

\* the catch block logs the exception and the run returns success
CaughtReturnsSuccess(e) ==
    /\ settled' = Fulfilled(TRUE, 0, Undefined)
    /\ wrapped' = Wrap(settled')
    /\ pc' = "done"

\* the run ends in the catch block of processCSV
Caught(e) ==
    /\ settled' = processCSVCatch(e)
    /\ wrapped' = Wrap(processCSVCatch(e))
    /\ pc' = "done"

(***************************************************************************)
(* processSHFCSV(file): the file is read and decoded, and processCSV is    *)
(* called on its text by the run that is not parked.                       *)
(***************************************************************************)
\* no run is in progress
Idle == pc \in {"idle", "done"}

\* the candidates, in the order they are tried
encodings == <<"windows-1252", "iso-8859-1", "utf-8">>

\* what the decoding with one candidate gives: the number of replacement
\* characters in the text, or DecodeFails when the decoder throws
DecodeFails == -1

\* every candidate decodes the file without a replacement character
CleanDecode == <<0, 0, 0>>

\* the loop over the candidates from candidate i on; best is the candidate
\* of bestContent, 0 when bestContent is empty.  The result is the candidate
\* whose text is used, 0 when there is none
RECURSIVE SelectFrom(_, _, _)
SelectFrom(tries, i, best) ==
    IF i > Len(tries) THEN best
    ELSE IF tries[i] = DecodeFails THEN SelectFrom(tries, i + 1, best)
    ELSE IF tries[i] = 0 THEN i
    ELSE IF best = 0 \/ tries[i] < tries[best] THEN SelectFrom(tries, i + 1, i)
    ELSE SelectFrom(tries, i + 1, best)

\* the first candidate that decodes at all is used, clean or not
SelectEncodingFirstDecoded(tries) ==
    IF \E i \in 1..Len(tries) : tries[i] # DecodeFails
    THEN CHOOSE i \in 1..Len(tries) :
             /\ tries[i] # DecodeFails
             /\ \A j \in 1..(i - 1) : tries[j] = DecodeFails
    ELSE 0

SelectEncoding(tries) == SelectFrom(tries, 1, 0)

\* the text of an empty file: split('\n') gives one empty line
EmptyText == << <<"">> >>

\* !csvContent && !bestContent: no candidate gave a text, or the clean text
\* is the empty string
FallsBack(file, tries) ==
    \/ SelectEncoding(tries) = 0
    \/ tries[SelectEncoding(tries)] = 0 /\ file = EmptyText

\* the text is decoded: by a candidate, or by the utf-8 fallback
Decoded(file, tries, fallbackOk) == FallsBack(file, tries) => fallbackOk

\* tries is what the candidates give for the file; when the selection falls
\* back the file is decoded as utf-8, which succeeds or throws (fallbackOk)
processSHFCSV(file, outcome, isError, tries, fallbackOk) ==
    /\ Idle
    /\ runs < MaxRuns
    /\ outcome \in {"ok", "throw"}
    /\ Fault(outcome)
    /\ outcome = "ok" /\ Decoded(file, tries, fallbackOk) => isError
    /\ outcome = "throw" \/ ~FallsBack(file, tries) => fallbackOk
    /\ outcome = "throw" => tries = CleanDecode
    /\ decodes' = IF outcome = "ok" THEN tries ELSE <<>>
    /\ bestEncoding' = IF outcome = "ok" /\ SelectEncoding(tries) # 0
                       THEN encodings[SelectEncoding(tries)]
                       ELSE "utf-8"
    /\ runs' = runs + 1
    /\ prev' = [ file      |-> csvContent,
                 clean     |-> pc = "done" /\ failedCalls = <<>> /\ wrapped.success,
                 prices    |-> priceIndices,
                 locations |-> locations,
                 logs      |-> uploadLogs ]
    /\ csvContent' = file
    /\ logId' = NoId
    /\ rawRows' = <<>>
    /\ residentialRows' = <<>>
    /\ locationsToCreate' = <<>>
    /\ li' = 1
    /\ locationMap' = <<>>
    /\ priceDataToInsert' = <<>>
    /\ ri' = 1
    /\ bi' = 1
    /\ calls' = <<>>
    /\ failedCalls' = IF outcome = "throw" THEN <<"arrayBuffer">>
                      ELSE IF ~Decoded(file, tries, fallbackOk) THEN <<"decode">>
                      ELSE <<>>
    /\ insertedKeys' = <<>>
    /\ builtFrom' = <<>>
    /\ batches' = <<>>
    /\ failedKeys' = <<>>
    /\ settled' = Pending
    /\ IF outcome = "ok" /\ Decoded(file, tries, fallbackOk)
       THEN /\ pc' = "createLog"
            /\ wrapped' = Pending
       ELSE /\ pc' = "done"
            /\ wrapped' = processSHFCSVCatch([isError |-> isError, message |-> "read failed"])
    /\ UNCHANGED <<storageVars, parked, accountVars, batchSize>>

(***************************************************************************)
(* processCSV, lines 57-89: the log entry is inserted; the text is parsed  *)
(* and filtered, and processLocations computes the locations to reconcile. *)
(***************************************************************************)
CreateUploadLog(outcome) ==
    /\ pc = "createLog"
    /\ Fault(outcome)
    /\ Call("insertLog", outcome # "ok")
    /\ uploadLogs' = IF outcome = "ok" THEN Append(uploadLogs, NewLog(filename))
                     ELSE uploadLogs
    /\ IF CreateLogThrows(outcome)
       THEN /\ Caught(IF outcome = "error"
                      THEN Error("Failed to create upload log: db error")
                      ELSE NetworkError)
            /\ UNCHANGED <<logId, rawRows, residentialRows, locationsToCreate>>
       ELSE /\ logId' = IF outcome = "ok" THEN Len(uploadLogs) + 1 ELSE NoId
            /\ rawRows' = parseCSV(csvContent)
            /\ residentialRows' = residentialRowsOf(rawRows')
            /\ locationsToCreate' = locationsToCreateOf(residentialRows')
            /\ pc' = IF Len(locationsToCreate') = 0 THEN "propertyTypes" ELSE "getLocations"
            /\ UNCHANGED <<settled, wrapped>>
    /\ UNCHANGED <<locations, nextLocId, priceIndices, nextPriceId, propertyTypes, refreshes>>
    /\ UNCHANGED <<csvContent, li, locationMap, priceDataToInsert, ri, bi>>
    /\ UNCHANGED <<insertedKeys, builtFrom, batches, failedKeys,
                   runs, prev, parked, accountVars, decodeVars, batchSize>>

(***************************************************************************)
(* processLocations, lines 290-319: one location is reconciled by a read   *)
(* of the location list and, when no stored location matches, an insert.   *)
(***************************************************************************)
\* the loop over the locations is left at the first location that fails
NextLocationIndexBreak(i, failed, n) == IF failed THEN n + 1 ELSE i + 1

\* the index of the location after location i of n: the catch block is
\* inside the loop
NextLocationIndex(i, failed, n) == i + 1

\* the loop moves to the next location, or processLocations returns
NextLocation(failed) ==
    /\ li' = NextLocationIndex(li, failed, Len(locationsToCreate))
    /\ failedKeys' = IF failed THEN Append(failedKeys, li) ELSE failedKeys
    /\ pc' = IF li' > Len(locationsToCreate) THEN "propertyTypes" ELSE "getLocations"

GetLocations(outcome) ==
    /\ pc = "getLocations"
    /\ Fault(outcome)
    /\ Call("getLocations", outcome # "ok")
    /\ LET location == locationsToCreate[li]
           found == Existing(locations, location)
       IN  IF outcome # "ok"
           THEN NextLocation(TRUE) /\ UNCHANGED locationMap
           ELSE IF found # {}
           THEN /\ \E existing \in found :
                      locationMap' = MapSet(locationMap, MapKey(location), existing.id)
                /\ NextLocation(FALSE)
           ELSE /\ pc' = "insertLocation"
                /\ UNCHANGED <<li, locationMap, failedKeys>>
    /\ UNCHANGED storageVars
    /\ UNCHANGED <<csvContent, logId, rawRows, residentialRows, locationsToCreate,
                   priceDataToInsert, ri, bi, settled, wrapped>>
    /\ UNCHANGED <<insertedKeys, builtFrom, batches, runs, prev, parked, accountVars, decodeVars, batchSize>>

InsertLocation(outcome) ==
    /\ pc = "insertLocation"
    /\ Fault(outcome)
    /\ Call("insertLocation", outcome # "ok")
    /\ LET location == locationsToCreate[li]
       IN  IF outcome = "ok"
           THEN /\ locations' = InsertRow(locations, StoredLocation(nextLocId, location))
                /\ nextLocId' = nextLocId + 1
                /\ locationMap' = MapSet(locationMap, MapKey(location), nextLocId)
                /\ insertedKeys' = Append(insertedKeys,
                       [key |-> locationSetOf(residentialRows)[li], id |-> nextLocId])
           ELSE UNCHANGED <<locations, nextLocId, locationMap, insertedKeys>>
    /\ NextLocation(outcome # "ok")
    /\ UNCHANGED <<priceIndices, nextPriceId, uploadLogs, propertyTypes, refreshes>>
    /\ UNCHANGED <<csvContent, logId, rawRows, residentialRows, locationsToCreate,
                   priceDataToInsert, ri, bi, settled, wrapped>>
    /\ UNCHANGED <<builtFrom, batches, runs, prev, parked, accountVars, decodeVars, batchSize>>

(***************************************************************************)
(* processPropertyTypes, lines 325-332: the verification read.             *)
(***************************************************************************)
\* the log entry is updated before any batch is written
AfterBuildUpdatesLog(records) == "updateLog"

\* where processCSV goes once the records are built
AfterBuild(records) == IF Len(records) = 0 THEN "updateLog" ELSE "upsert"

ProcessPropertyTypes(outcome) ==
    /\ pc = "propertyTypes"
    /\ Fault(outcome)
    /\ Call("verifyPropertyTypes", outcome # "ok")
    /\ IF VerifyThrows(outcome)
       THEN Caught(IF outcome = "error"
                   THEN Error("Failed to get property types: db error")
                   ELSE NetworkError)
       ELSE /\ pc' = IF Len(residentialRows) = 0 THEN AfterBuild(<<>>) ELSE "buildRecords"
            /\ UNCHANGED <<settled, wrapped>>
    /\ UNCHANGED storageVars
    /\ UNCHANGED <<csvContent, logId, rawRows, residentialRows, locationsToCreate, li, locationMap,
                   priceDataToInsert, ri, bi>>
    /\ UNCHANGED <<insertedKeys, builtFrom, batches, failedKeys,
                   runs, prev, parked, accountVars, decodeVars, batchSize>>

(***************************************************************************)
(* processPriceData, lines 344-392: one row is turned into a record, or    *)
(* skipped.  A row with a property-type label reads the property types.    *)
(***************************************************************************)
\* the row reaches the read of the property types at line 371
ReadsPropertyTypes(row, map) ==
    /\ BuilderKey(row) # NoKey
    /\ MapGet(map, BuilderKey(row)) # NoId
    /\ row.global \in propertyTypeLabels

PriceRecord(row, locationId, propertyTypeId) ==
    [ location_id      |-> locationId,
      property_type_id |-> propertyTypeId,
      quarter          |-> row.trimestre,
      year             |-> row.anio,
      index_value      |-> parseFloat(row.indice) ]

\* the records after the row: outcome is that of the read, if there is one
BuiltWith(records, row, map, types, outcome) ==
    IF BuilderKey(row) = NoKey \/ MapGet(map, BuilderKey(row)) = NoId
    THEN records
    ELSE IF ~(row.global \in propertyTypeLabels)
    THEN Append(records, PriceRecord(row, MapGet(map, BuilderKey(row)), Undefined))
    ELSE IF outcome = "throw"
    THEN records
    ELSE Append(records,
                PriceRecord(row, MapGet(map, BuilderKey(row)),
                            IF outcome = "ok"
                            THEN PropertyTypeId(types, propertyTypeMap(row.global))
                            ELSE Undefined))

BuildRecord(outcome) ==
    /\ pc = "buildRecords"
    /\ LET row == residentialRows[ri]
           reads == ReadsPropertyTypes(row, locationMap)
       IN  /\ ~reads => outcome = "ok"
           /\ Fault(outcome)
           /\ IF reads
              THEN Call("getPropertyTypes", outcome # "ok")
              ELSE UNCHANGED <<calls, failedCalls>>
           /\ priceDataToInsert' =
                  BuiltWith(priceDataToInsert, row, locationMap, propertyTypes, outcome)
    /\ builtFrom' = IF Len(priceDataToInsert') > Len(priceDataToInsert)
                    THEN Append(builtFrom, ri) ELSE builtFrom
    /\ ri' = ri + 1
    /\ bi' = 1
    /\ pc' = IF ri + 1 > Len(residentialRows) THEN AfterBuild(priceDataToInsert')
             ELSE "buildRecords"
    /\ UNCHANGED storageVars
    /\ UNCHANGED <<csvContent, logId, rawRows, residentialRows, locationsToCreate, li, locationMap,
                   settled, wrapped>>
    /\ UNCHANGED <<insertedKeys, batches, failedKeys, runs, prev, parked, accountVars, decodeVars, batchSize>>

(***************************************************************************)
(* processPriceData, lines 401-422: one batch is upserted.                 *)
(***************************************************************************)
\* the loop over the batches is left at the first batch that fails
NextBatchBreak(i, failed, n) == IF failed THEN n + 1 ELSE i + batchSize

\* the offset of the batch after the one at offset i (1-based); n records
NextBatch(i, failed, n) == i + batchSize

\* every record from offset i on is sent at once
BatchAtRest(records, i) == SubSeq(records, i, Len(records))

\* priceDataToInsert.slice(i, i + batchSize), offsets 1-based
BatchAt(records, i) == SubSeq(records, i, Min(i + batchSize - 1, Len(records)))

UpsertBatch(outcome) ==
    /\ pc = "upsert"
    /\ Fault(outcome)
    /\ LET batch == BatchAt(priceDataToInsert, bi)
           res == IF outcome = "ok"
                  THEN upsert(batch, priceIndices, nextPriceId, locations)
                  ELSE [ok |-> FALSE, table |-> priceIndices, nextId |-> nextPriceId]
       IN  /\ Call("upsert", ~res.ok)
           /\ priceIndices' = res.table
           /\ nextPriceId' = res.nextId
           /\ batches' = Append(batches, [offset |-> bi, records |-> batch, ok |-> res.ok])
           /\ bi' = NextBatch(bi, ~res.ok, Len(priceDataToInsert))
    /\ pc' = IF bi' > Len(priceDataToInsert) THEN "updateLog" ELSE "upsert"
    /\ UNCHANGED <<locations, nextLocId, uploadLogs, propertyTypes, refreshes>>
    /\ UNCHANGED <<csvContent, logId, rawRows, residentialRows, locationsToCreate, li, locationMap,
                   priceDataToInsert, ri, settled, wrapped>>
    /\ UNCHANGED <<insertedKeys, builtFrom, failedKeys, runs, prev, parked, accountVars, decodeVars, batchSize>>

(***************************************************************************)
(* processCSV, lines 106-118: the log entry is updated and the result      *)
(* returned.                                                               *)
(***************************************************************************)
UpdateUploadLog(outcome, isError) ==
    /\ pc = "updateLog"
    /\ Fault(outcome)
    /\ outcome # "error" => isError
    /\ Call("updateLog", outcome # "ok")
    /\ uploadLogs' = IF outcome = "ok"
                     THEN UpdatedLogs(uploadLogs, logId, Len(priceDataToInsert))
                     ELSE uploadLogs
    /\ refreshes' = IF outcome = "ok"
                    THEN refreshes + Refreshes(uploadLogs, uploadLogs', {logId})
                    ELSE refreshes
    /\ IF UpdateLogThrows(outcome)
       THEN Caught(IF outcome = "error" THEN StorageError(isError) ELSE NetworkError)
       ELSE /\ settled' = Fulfilled(TRUE, Len(priceDataToInsert), Undefined)
            /\ wrapped' = Wrap(settled')
            /\ pc' = "done"
    /\ UNCHANGED <<locations, nextLocId, priceIndices, nextPriceId, propertyTypes>>
    /\ UNCHANGED <<csvContent, logId, rawRows, residentialRows, locationsToCreate, li, locationMap,
                   priceDataToInsert, ri, bi>>
    /\ UNCHANGED <<insertedKeys, builtFrom, batches, failedKeys,
                   runs, prev, parked, accountVars, decodeVars, batchSize>>

Next ==
    \/ /\ Idle
       /\ \E file \in Files, outcome \in Outcomes, isError \in BOOLEAN :
              processSHFCSV(file, outcome, isError, CleanDecode, TRUE)
    \/ \E outcome \in Outcomes : CreateUploadLog(outcome)
    \/ \E outcome \in Outcomes : GetLocations(outcome)
    \/ \E outcome \in Outcomes : InsertLocation(outcome)
    \/ \E outcome \in Outcomes : ProcessPropertyTypes(outcome)
    \/ \E outcome \in Outcomes : BuildRecord(outcome)
    \/ \E outcome \in Outcomes : UpsertBatch(outcome)
    \/ \E outcome \in Outcomes, isError \in BOOLEAN : UpdateUploadLog(outcome, isError)

Spec == Init /\ [][Next]_vars

(***************************************************************************)
(* One run on a file whose lines cover the cases of the row classifier and *)
(* of the record builder: the five classes of rows, the excluded category, *)
(* and index, quarter and year texts that are no numbers, a label whose    *)
(* property type is not seeded, and rows that match several key rules.     *)
(***************************************************************************)
\* runs on a file of RowFiles
MaxRowRuns == 1

RowLines ==
    DataLines \cup
    { <<"9", "Nacional", "", "", "3", "2021", "200,00">>,
      <<"10", "Nacional", "", "", "1", "2020", "abc">>,
      <<"11", "Nacional", "", "", "1", "2020", "">>,
      <<"12", "Nacional", "", "", "x", "2020", "100,00">>,
      <<"13", "Nacional", "", "", "1", "x", "100,00">>,
      <<"14", "Nueva", "Jalisco", "", "1", "2020", "100,00">>,
      <<"15", "Economica - Social", "Jalisco", "Guadalajara", "3", "2021", "150,25">>,
      <<"16", "Economica - Social", "", "", "1", "2020", "100,00">>,
      <<"17", "Media - Residencial", "", "", "1", "2020", "100,00">>,
      <<"18", "Media - Residencial", "Jalisco", "", "1", "2020", "100,00">>,
      <<"19", "Nacional", "Jalisco", "Guadalajara", "1", "2020", "100,00">>,
      <<"20", "ZM Guadalajara", "Jalisco", "Guadalajara", "1", "2020", "100,00">>,
      <<"21", "", "", "Guadalajara", "1", "2020", "100,00">> }

RowFiles == {<<HeaderLine>> \o body : body \in SeqsUpTo(RowLines, MaxLines)}

NextRows ==
    \/ /\ Idle
       /\ runs < MaxRowRuns
       /\ \E file \in RowFiles, outcome \in Outcomes, isError \in BOOLEAN :
              processSHFCSV(file, outcome, isError, CleanDecode, TRUE)
    \/ \E outcome \in Outcomes : CreateUploadLog(outcome)
    \/ \E outcome \in Outcomes : GetLocations(outcome)
    \/ \E outcome \in Outcomes : InsertLocation(outcome)
    \/ \E outcome \in Outcomes : ProcessPropertyTypes(outcome)
    \/ \E outcome \in Outcomes : BuildRecord(outcome)
    \/ \E outcome \in Outcomes : UpsertBatch(outcome)
    \/ \E outcome \in Outcomes, isError \in BOOLEAN : UpdateUploadLog(outcome, isError)

SpecRows == Init /\ [][NextRows]_vars

(***************************************************************************)
(* One run on a file made of any lines, the first one included: data       *)
(* lines, the header, blank lines, and lines with too few or too many      *)
(* columns.                                                                *)
(***************************************************************************)
\* lines of a file of ParseFiles, the first line included
MaxParseLines == 3
\* runs on a file of ParseFiles
MaxParseRuns == 1

ParseLines ==
    { HeaderLine,
      <<"1", "Nacional", "", "", "2", "2020", "150,25">>,
      <<"5", "", "Jalisco", "", "1", "2020", "100,00">>,
      <<"8", "Nacional", "", "", "1">>,
      <<"9", "Nacional", "", "", "3", "2021", "200,00", "x">>,
      <<"", "", "", "", "", "", "">>,
      <<"">>,
      <<"  ">> }

\* split('\n') of a text has at least one element
ParseFiles == SeqsUpTo(ParseLines, MaxParseLines) \ {<<>>}

NextParse ==
    \/ /\ Idle
       /\ runs < MaxParseRuns
       /\ \E file \in ParseFiles, outcome \in Outcomes, isError \in BOOLEAN :
              processSHFCSV(file, outcome, isError, CleanDecode, TRUE)
    \/ \E outcome \in Outcomes : CreateUploadLog(outcome)
    \/ \E outcome \in Outcomes : GetLocations(outcome)
    \/ \E outcome \in Outcomes : InsertLocation(outcome)
    \/ \E outcome \in Outcomes : ProcessPropertyTypes(outcome)
    \/ \E outcome \in Outcomes : BuildRecord(outcome)
    \/ \E outcome \in Outcomes : UpsertBatch(outcome)
    \/ \E outcome \in Outcomes, isError \in BOOLEAN : UpdateUploadLog(outcome, isError)

SpecParse == Init /\ [][NextParse]_vars

(***************************************************************************)
(* Two runs that overlap.  processSHFCSV is an async function: while one   *)
(* invocation waits for a storage call another invocation can be started   *)
(* and can go on.  The model keeps the state of the invocation that is not *)
(* running in `parked`; Yield hands control to it, which can happen        *)
(* wherever the running invocation waits, that is between any two actions. *)
(***************************************************************************)
\* the state of the run in progress
RunState ==
    [ pc |-> pc,
      bestEncoding |-> bestEncoding,
      decodes |-> decodes,
      csvContent |-> csvContent,
      logId |-> logId,
      rawRows |-> rawRows,
      residentialRows |-> residentialRows,
      locationsToCreate |-> locationsToCreate,
      li |-> li,
      locationMap |-> locationMap,
      priceDataToInsert |-> priceDataToInsert,
      ri |-> ri,
      bi |-> bi,
      settled |-> settled,
      wrapped |-> wrapped,
      calls |-> calls,
      failedCalls |-> failedCalls,
      insertedKeys |-> insertedKeys,
      builtFrom |-> builtFrom,
      batches |-> batches,
      failedKeys |-> failedKeys ]

Yield ==
    /\ parked # RunState
    /\ parked' = RunState
    /\ pc' = parked.pc
    /\ bestEncoding' = parked.bestEncoding
    /\ decodes' = parked.decodes
    /\ csvContent' = parked.csvContent
    /\ logId' = parked.logId
    /\ rawRows' = parked.rawRows
    /\ residentialRows' = parked.residentialRows
    /\ locationsToCreate' = parked.locationsToCreate
    /\ li' = parked.li
    /\ locationMap' = parked.locationMap
    /\ priceDataToInsert' = parked.priceDataToInsert
    /\ ri' = parked.ri
    /\ bi' = parked.bi
    /\ settled' = parked.settled
    /\ wrapped' = parked.wrapped
    /\ calls' = parked.calls
    /\ failedCalls' = parked.failedCalls
    /\ insertedKeys' = parked.insertedKeys
    /\ builtFrom' = parked.builtFrom
    /\ batches' = parked.batches
    /\ failedKeys' = parked.failedKeys
    /\ UNCHANGED <<storageVars, runs, faults, prev, accountVars, batchSize>>

\* a municipality row and a state row
OverlapLines ==
    { <<"3", "Usada", "Jalisco", "Guadalajara", "1", "2020", "100,00">>,
      <<"5", "", "Jalisco", "", "1", "2020", "100,00">> }

OverlapFiles == {<<HeaderLine, line>> : line \in OverlapLines}

NextOverlap ==
    \/ /\ Idle
       /\ \E file \in OverlapFiles, outcome \in Outcomes, isError \in BOOLEAN :
              processSHFCSV(file, outcome, isError, CleanDecode, TRUE)
    \/ \E outcome \in Outcomes : CreateUploadLog(outcome)
    \/ \E outcome \in Outcomes : GetLocations(outcome)
    \/ \E outcome \in Outcomes : InsertLocation(outcome)
    \/ \E outcome \in Outcomes : ProcessPropertyTypes(outcome)
    \/ \E outcome \in Outcomes : BuildRecord(outcome)
    \/ \E outcome \in Outcomes : UpsertBatch(outcome)
    \/ \E outcome \in Outcomes, isError \in BOOLEAN : UpdateUploadLog(outcome, isError)
    \/ Yield

SpecOverlap == Init /\ [][NextOverlap]_vars

(***************************************************************************)
(* Account deletion: the SQL function delete_user_completely on the tables *)
(* users, user_watchlists and data_upload_logs.  The function is one       *)
(* transaction.  The tables it starts from are drawn from the rows below;  *)
(* the foreign keys of the schema hold in them.                            *)
(***************************************************************************)
\* rows of data_upload_logs before the first deletion
MaxLogs == 2

UserIds == {"u1", "u2"}

UserRows == {[id |-> u, email |-> u] : u \in UserIds}

WatchlistRows ==
    { [id |-> 1, user_id |-> "u1", location_id |-> 1, property_type_id |-> Null],
      [id |-> 2, user_id |-> "u1", location_id |-> 1, property_type_id |-> "pt-nueva"],
      [id |-> 3, user_id |-> "u2", location_id |-> 1, property_type_id |-> Null] }

\* a log entry of a finished upload by the user `owner`
LogRows ==
    {[NewLog(filename) EXCEPT !.status = "completed", !.updates = 1, !.uploaded_by = owner]
        : owner \in UserIds \cup {Null}}

\* user_id REFERENCES users(id), uploaded_by REFERENCES users(id)
ForeignKeysHold(userRows, watchlists, logs) ==
    /\ \A w \in watchlists : \E u \in userRows : u.id = w.user_id
    /\ \A i \in 1..Len(logs) :
           logs[i].uploaded_by # Null => \E u \in userRows : u.id = logs[i].uploaded_by

InitAccounts ==
    /\ locations = {StoredLocation(1, [name |-> "Nacional", type |-> "national",
                                       state |-> Undefined])}
    /\ nextLocId = 2
    /\ priceIndices = {}
    /\ nextPriceId = 1
    /\ propertyTypes = SeededPropertyTypes
    /\ refreshes = 0
    /\ users \in SUBSET UserRows
    /\ userWatchlists \in SUBSET WatchlistRows
    /\ uploadLogs \in SeqsUpTo(LogRows, MaxLogs)
    /\ ForeignKeysHold(users, userWatchlists, uploadLogs)
    /\ batchSize = BatchSize
    /\ NoRun

\* DELETE FROM data_upload_logs WHERE uploaded_by = user_id
DeletedLogs(logs, user_id) ==
    LET IsKept(log) == log.uploaded_by # user_id
    IN  SelectSeq(logs, IsKept)

\* UPDATE data_upload_logs SET uploaded_by = NULL WHERE uploaded_by = user_id
AnonymizedLogs(logs, user_id) ==
    [ i \in 1..Len(logs) |->
        IF logs[i].uploaded_by = user_id
        THEN [logs[i] EXCEPT !.uploaded_by = Null]
        ELSE logs[i] ]

delete_user_completely(user_id) ==
    /\ userWatchlists' = {w \in userWatchlists : w.user_id # user_id}
    /\ uploadLogs' = AnonymizedLogs(uploadLogs, user_id)
    /\ refreshes' = refreshes + Refreshes(uploadLogs, uploadLogs',
                         {i \in 1..Len(uploadLogs) : uploadLogs[i].uploaded_by = user_id})
    /\ users' = {u \in users : u.id # user_id}
    /\ deleted' = [ user_id        |-> user_id,
                    users          |-> users,
                    userWatchlists |-> userWatchlists,
                    uploadLogs     |-> uploadLogs ]
    /\ UNCHANGED <<locations, nextLocId, priceIndices, nextPriceId, propertyTypes>>
    /\ UNCHANGED <<runVars, historyVars, parked, decodeVars, batchSize>>

NextAccounts == \E user_id \in UserIds : delete_user_completely(user_id)

SpecAccounts == InitAccounts /\ [][NextAccounts]_vars

(***************************************************************************)
(* One run with a batch size drawn from 1..MaxBatchSize on a file of up to *)
(* MaxBatchLines lines that each yield a record: the records are written   *)
(* in one batch, in full batches, or in full batches and a smaller last    *)
(* one.                                                                    *)
(***************************************************************************)
\* data lines per file of BatchFiles
MaxBatchLines == 3
\* the largest batch size of SpecBatch
MaxBatchSize == 2
\* runs on a file of BatchFiles
MaxBatchRuns == 1

BatchLines ==
    { <<"1", "Nacional", "", "", "2", "2020", "150,25">>,
      <<"5", "", "Jalisco", "", "1", "2020", "100,00">>,
      <<"9", "Nacional", "", "", "3", "2021", "200,00">> }

BatchFiles == {<<HeaderLine>> \o body : body \in SeqsUpTo(BatchLines, MaxBatchLines)}

InitBatch ==
    /\ locations = {}
    /\ nextLocId = 1
    /\ priceIndices = {}
    /\ nextPriceId = 1
    /\ uploadLogs = <<>>
    /\ propertyTypes = SeededPropertyTypes
    /\ refreshes = 0
    /\ users = {}
    /\ userWatchlists = {}
    /\ batchSize \in 1..MaxBatchSize
    /\ NoRun

NextBatches ==
    \/ /\ Idle
       /\ runs < MaxBatchRuns
       /\ \E file \in BatchFiles, outcome \in Outcomes, isError \in BOOLEAN :
              processSHFCSV(file, outcome, isError, CleanDecode, TRUE)
    \/ \E outcome \in Outcomes : CreateUploadLog(outcome)
    \/ \E outcome \in Outcomes : GetLocations(outcome)
    \/ \E outcome \in Outcomes : InsertLocation(outcome)
    \/ \E outcome \in Outcomes : ProcessPropertyTypes(outcome)
    \/ \E outcome \in Outcomes : BuildRecord(outcome)
    \/ \E outcome \in Outcomes : UpsertBatch(outcome)
    \/ \E outcome \in Outcomes, isError \in BOOLEAN : UpdateUploadLog(outcome, isError)

SpecBatch == InitBatch /\ [][NextBatches]_vars

(***************************************************************************)
(* One run on a file for which the three decoders give any combination of  *)
(* a clean text, a text with replacement characters and an exception.      *)
(***************************************************************************)
\* replacement characters in the text a decoder gives
MaxMarkers == 2
\* runs on a file of DecodeFiles
MaxDecodeRuns == 1

DecodeFiles == OverlapFiles \cup {EmptyText}

\* what the three decoders can give for the file: the text of an empty
\* file has no character to replace
DecodesOf(file) ==
    IF file = EmptyText THEN [1..Len(encodings) -> {DecodeFails, 0}]
    ELSE [1..Len(encodings) -> DecodeFails..MaxMarkers]

\* the utf-8 decoder that gave a text as a candidate gives one as the
\* fallback
UTF8Decodes(tries) == tries[Len(encodings)] # DecodeFails

NextDecode ==
    \/ /\ Idle
       /\ runs < MaxDecodeRuns
       /\ \E file \in DecodeFiles, outcome \in Outcomes, isError \in BOOLEAN :
              \E tries \in DecodesOf(file), fallbackOk \in BOOLEAN :
                  /\ UTF8Decodes(tries) => fallbackOk
                  /\ processSHFCSV(file, outcome, isError, tries, fallbackOk)
    \/ \E outcome \in Outcomes : CreateUploadLog(outcome)
    \/ \E outcome \in Outcomes : GetLocations(outcome)
    \/ \E outcome \in Outcomes : InsertLocation(outcome)
    \/ \E outcome \in Outcomes : ProcessPropertyTypes(outcome)
    \/ \E outcome \in Outcomes : BuildRecord(outcome)
    \/ \E outcome \in Outcomes : UpsertBatch(outcome)
    \/ \E outcome \in Outcomes, isError \in BOOLEAN : UpdateUploadLog(outcome, isError)

SpecDecode == Init /\ [][NextDecode]_vars

(***************************************************************************)
(* One run on a database with users and log entries of finished uploads,   *)
(* where accounts are deleted before, during and after the run: the        *)
(* updates of data_upload_logs that the trigger of the insights sees.      *)
(***************************************************************************)
\* runs on a file of OverlapFiles
MaxInsightRuns == 1

NextInsights ==
    \/ /\ Idle
       /\ runs < MaxInsightRuns
       /\ \E file \in OverlapFiles, outcome \in Outcomes, isError \in BOOLEAN :
              processSHFCSV(file, outcome, isError, CleanDecode, TRUE)
    \/ \E outcome \in Outcomes : CreateUploadLog(outcome)
    \/ \E outcome \in Outcomes : GetLocations(outcome)
    \/ \E outcome \in Outcomes : InsertLocation(outcome)
    \/ \E outcome \in Outcomes : ProcessPropertyTypes(outcome)
    \/ \E outcome \in Outcomes : BuildRecord(outcome)
    \/ \E outcome \in Outcomes : UpsertBatch(outcome)
    \/ \E outcome \in Outcomes, isError \in BOOLEAN : UpdateUploadLog(outcome, isError)
    \/ \E user_id \in UserIds : delete_user_completely(user_id)

SpecInsights == InitAccounts /\ [][NextInsights]_vars

(***************************************************************************)
(* Properties.                                                             *)
(***************************************************************************)
Done == pc = "done"

\* the log entry of the run in progress, once it is created
LogCreated == logId # NoId
RunLog == uploadLogs[logId]

Failed(name) == \E i \in 1..Len(failedCalls) : failedCalls[i] = name

IsResult(p) ==
    /\ p.state = "fulfilled"
    /\ p.success \in BOOLEAN
    /\ p.recordsProcessed \in Nat
    /\ p.success => p.error = Undefined
    /\ ~p.success => p.recordsProcessed = 0 /\ p.error # Undefined

\* C1: processCSV and processSHFCSV never reject: once the run is over both
\* promises are fulfilled with {success, recordsProcessed, error?}, whatever
\* call failed, and a result with success false has recordsProcessed 0 and
\* an error text.
C1_AlwaysStructuredResult ==
    /\ settled.state # "rejected"
    /\ wrapped.state # "rejected"
    /\ Done => IsResult(wrapped)
    /\ Done /\ ~Failed("arrayBuffer") => IsResult(settled) /\ wrapped = settled

C1_Witness ==
    /\ Done
    /\ Failed("updateLog")
    /\ settled.state = "fulfilled" /\ ~settled.success
    /\ settled.error = "Unknown error"
    /\ settled.recordsProcessed = 0
    /\ Len(priceDataToInsert) > 0

\* C2: a run that created its log entry has, when it returns, updated that
\* entry exactly once, to completed or to failed with the error recorded.
C2_LogTerminalOnReturn ==
    Done /\ LogCreated =>
        /\ RunLog.updates = 1
        /\ RunLog.status \in {"completed", "failed"}
        /\ RunLog.status = "failed" => RunLog.error_message # Null

\* C3: when the insert of the log entry fails the run is over at once with a
\* failure result, and the insert is the only storage call it has issued.
C3_NoCallAfterFailedCreate ==
    Failed("insertLog") =>
        /\ Done
        /\ calls = <<"insertLog">>
        /\ IsResult(settled) /\ ~settled.success
        /\ uploadLogs = prev.logs /\ locations = prev.locations /\ priceIndices = prev.prices

C3_Witness ==
    /\ Done
    /\ failedCalls = <<"insertLog">>
    /\ Len(parseCSV(csvContent)) > 0
    /\ settled.error = "Failed to create upload log: db error"

\* a failure that leaves its stage: the verification read of the property
\* types, or the update of the log entry
EscapedFailure == Failed("verifyPropertyTypes") \/ Failed("updateLog")

SameTuple(stored, rec) ==
    /\ stored.location_id = rec.location_id
    /\ stored.property_type_id = StoredValue(rec.property_type_id)
    /\ stored.quarter = rec.quarter
    /\ stored.year = rec.year

RECURSIVE Concat(_, _)
Concat(bs, k) == IF k > Len(bs) THEN <<>> ELSE bs[k].records \o Concat(bs, k + 1)

SomeBatchFailed == \E k \in 1..Len(batches) : ~batches[k].ok

\* C5: when the upsert of a batch fails, every batch of the run is still
\* attempted, in order; the records of the batches that were committed are
\* stored; and, the log update succeeding, the entry is completed and the
\* result is success with the number of records built, those of the failed
\* batch included.
C5_BatchFailureTolerated ==
    Done /\ SomeBatchFailed =>
        /\ \A k \in 1..Len(batches) : batches[k].offset = 1 + (k - 1) * batchSize
        /\ Concat(batches, 1) = priceDataToInsert
        /\ \A k \in 1..Len(batches) : batches[k].ok =>
               \A i \in 1..Len(batches[k].records) :
                   \E r \in priceIndices : SameTuple(r, batches[k].records[i])
        /\ ~Failed("updateLog") =>
               /\ RunLog.status = "completed"
               /\ RunLog.records_processed = Len(priceDataToInsert)
               /\ settled = Fulfilled(TRUE, Len(priceDataToInsert), Undefined)

C5_Witness ==
    /\ Done
    /\ Len(batches) >= 2
    /\ ~batches[1].ok
    /\ batches[2].ok
    /\ settled.success
    /\ settled.recordsProcessed = Len(batches)  * batchSize
    /\ RunLog.status = "completed"

\* the stored price records without their identifiers
Tuples(rows) ==
    { <<r.location_id, r.property_type_id, r.quarter, r.year, r.index_value>> : r \in rows }

\* C6: a second run on the same file, no storage call failing in either run,
\* leaves the stored price records as the first run left them.
C6_SecondRunSameRecords ==
    (/\ Done /\ runs = 2
     /\ prev.clean /\ failedCalls = <<>> /\ wrapped.success
     /\ prev.file = csvContent)
    => /\ Tuples(priceIndices) = Tuples(prev.prices)
       /\ Cardinality(priceIndices) = Cardinality(prev.prices)

\* C7: storage never holds two locations with the same name, type and state.
C7_OneLocationPerKey ==
    \A a, b \in locations :
        a.name = b.name /\ a.type = b.type /\ a.state = b.state => a = b

\* C8: storage never holds two price records with the same location,
\* property type, quarter and year.
C8_OneRecordPerTuple ==
    \A a, b \in priceIndices :
        (/\ a.location_id = b.location_id
         /\ a.property_type_id = b.property_type_id
         /\ a.quarter = b.quarter
         /\ a.year = b.year) => a = b

\* C9: within one run no key is inserted twice, and the records built from
\* rows with the same key carry the same location identifier.
C9_OneInsertPerKey ==
    /\ \A i, j \in 1..Len(insertedKeys) :
           insertedKeys[i].key = insertedKeys[j].key => i = j
    /\ \A i, j \in 1..Len(priceDataToInsert) :
           ResolverKey(residentialRows[builtFrom[i]]) = ResolverKey(residentialRows[builtFrom[j]])
           => priceDataToInsert[i].location_id = priceDataToInsert[j].location_id

C9_Witness ==
    /\ Done
    /\ Len(insertedKeys) = 1
    /\ Len(priceDataToInsert) = 2
    /\ ResolverKey(residentialRows[1]) = insertedKeys[1].key
    /\ ResolverKey(residentialRows[2]) = insertedKeys[1].key
    /\ priceDataToInsert[1].location_id = insertedKeys[1].id
    /\ priceDataToInsert[2].location_id = insertedKeys[1].id

\* the row is a property-type label row with no state and no municipality
\* whose code is a stored property type
IsLabelRow(row) ==
    /\ row.global \in propertyTypeLabels
    /\ row.estado = "" /\ row.municipio = ""
    /\ PropertyTypeId(propertyTypes, propertyTypeMap(row.global)) # Undefined

\* C10: a property-type label row with no state and no municipality yields
\* one record, attached to the national location, with the property type
\* its label maps to.
C10_LabelRowBuildsNationalRecord ==
    Done /\ failedCalls = <<>> /\ settled.success =>
        \A i \in 1..Len(residentialRows) : IsLabelRow(residentialRows[i]) =>
            \E j \in 1..Len(priceDataToInsert) :
                /\ builtFrom[j] = i
                /\ \E loc \in locations :
                       /\ loc.id = priceDataToInsert[j].location_id
                       /\ loc.type = "national" /\ loc.name = "Nacional"
                /\ priceDataToInsert[j].property_type_id =
                       PropertyTypeId(propertyTypes, propertyTypeMap(residentialRows[i].global))

\* x is an element of the sequence s
InSeq(x, s) == \E i \in 1..Len(s) : s[i] = x

\* the number of calls of the storage call `name`
CallCount(name) == Cardinality({i \in 1..Len(calls) : calls[i] = name})

\* C20: when the read of the location list or the insert of a location fails
\* for one key, that key is not in the location map and the run goes on:
\* every location is still reconciled and every other key is in the map, no
\* record is built from a row whose key is not in the map, and with no other
\* failure the run ends with success and its log entry completed.
C20_LocationFailureTolerated ==
    Done /\ failedKeys # <<>> =>
        /\ CallCount("getLocations") = Len(locationsToCreate)
        /\ \A i \in 1..Len(locationsToCreate) :
               InSeq(i, failedKeys) <=> MapKey(locationsToCreate[i]) \notin DOMAIN locationMap
        /\ \A i \in 1..Len(residentialRows) :
               InSeq(i, builtFrom) => BuilderKey(residentialRows[i]) \in DOMAIN locationMap
        /\ Len(failedCalls) = Len(failedKeys) =>
               /\ wrapped.success
               /\ LogCreated /\ RunLog.status = "completed"

C20_Witness ==
    /\ Done
    /\ failedKeys = <<1>>
    /\ Len(locationsToCreate) = 2
    /\ MapKey(locationsToCreate[2]) \in DOMAIN locationMap
    /\ Len(residentialRows) = 2
    /\ BuilderKey(residentialRows[1]) \notin DOMAIN locationMap
    /\ builtFrom = <<2>>
    /\ wrapped.success /\ wrapped.recordsProcessed = 1
    /\ RunLog.status = "completed"

\* the number of lines after the header that are equal to `line`
LineCount(line) == Cardinality({i \in 2..Len(csvContent) : csvContent[i] = line})

\* the records built from the rows with the number n in their first column
RecordsOf(n) ==
    {k \in 1..Len(priceDataToInsert) : residentialRows[builtFrom[k]].consecutivo = n}

\* id is the identifier of a stored national location
IsNationalLocation(id) ==
    \E loc \in locations :
        loc.id = id /\ loc.name = "Nacional" /\ loc.type = "national" /\ loc.state = Null

\* the record of a "Nacional" row
NationalRecord(rec, q, y, v) ==
    /\ rec.quarter = q
    /\ rec.year = y
    /\ rec.index_value = v
    /\ rec.property_type_id = Undefined
    /\ IsNationalLocation(rec.location_id)

\* C11: in a run with no failed call every line "Nacional" with quarter q,
\* year y and an index written with a comma yields exactly one record, with
\* quarter q, year y, the index with the comma read as the decimal point
\* (values in hundredths), no property type and the identifier of the
\* national location: 2, 2020, "150,25" gives 150.25 and 3, 2021, "200,00"
\* gives 200.00.
C11_NationalRowRecord ==
    Done /\ failedCalls = <<>> =>
        /\ Cardinality(RecordsOf(1)) =
               LineCount(<<"1", "Nacional", "", "", "2", "2020", "150,25">>)
        /\ \A k \in RecordsOf(1) : NationalRecord(priceDataToInsert[k], 2, 2020, 15025)
        /\ Cardinality(RecordsOf(9)) =
               LineCount(<<"9", "Nacional", "", "", "3", "2021", "200,00">>)
        /\ \A k \in RecordsOf(9) : NationalRecord(priceDataToInsert[k], 3, 2021, 20000)

C11_Witness ==
    /\ Done
    /\ failedCalls = <<>>
    /\ csvContent = <<HeaderLine, <<"1", "Nacional", "", "", "2", "2020", "150,25">>>>
    /\ Len(priceDataToInsert) = 1
    /\ NationalRecord(priceDataToInsert[1], 2, 2020, 15025)
    /\ wrapped.success /\ wrapped.recordsProcessed = 1
    /\ \E r \in priceIndices : r.index_value = 15025 /\ r.quarter = 2 /\ r.year = 2020

\* the run has parsed and filtered its file
Parsed == pc \notin {"idle", "createLog"} /\ ~Failed("insertLog") /\ ~Failed("arrayBuffer")

\* the category of the line is not "Economica - Social"
IsKeptLine(line) == ~(Len(line) >= 2 /\ line[2] = "Economica - Social")

\* the file without its lines of category "Economica - Social"
WithoutExcluded(lines) == SelectSeq(lines, IsKeptLine)

\* C12: a line whose category is "Economica - Social" is excluded whatever
\* its other fields are: the residential rows, and with them the locations to
\* reconcile, are those of the file without these lines, so that such a line
\* adds no location key, no location is inserted for it, and no record is
\* built from it.
C12_EconomicaSocialExcluded ==
    Parsed =>
        LET kept == residentialRowsOf(parseCSV(WithoutExcluded(csvContent)))
        IN  /\ residentialRows = kept
            /\ locationsToCreate = locationsToCreateOf(kept)
            /\ \A i \in 1..Len(insertedKeys) : InSeq(insertedKeys[i].key, locationSetOf(kept))
            /\ \A k \in 1..Len(priceDataToInsert) :
                   residentialRows[builtFrom[k]].global # "Economica - Social"

C12_Witness ==
    /\ Done
    /\ failedCalls = <<>>
    /\ csvContent = <<HeaderLine,
                      <<"15", "Economica - Social", "Jalisco", "Guadalajara", "3", "2021", "150,25">>,
                      <<"1", "Nacional", "", "", "2", "2020", "150,25">>>>
    /\ Len(residentialRows) = 1
    /\ Cardinality(locations) = 1
    /\ \A loc \in locations : loc.type = "national"
    /\ wrapped.success /\ wrapped.recordsProcessed = 1

\* the lines after the first that are not blank and have 7 columns or more
RowLinesOf(lines) ==
    {i \in 2..Len(lines) : lines[i] \notin {<<"">>, <<"  ">>} /\ Len(lines[i]) >= 7}

\* C13: the parser yields one row, in the order of the file, for every line
\* after the first that is not blank and has at least 7 columns, and no row
\* for the first line, a blank line or a line with fewer columns; such a
\* line raises no error: the rows of the lines after it are there, and a
\* run with no failed call ends with success.
C13_OneRowPerWellFormedLine ==
    Parsed =>
        LET good == RowLinesOf(csvContent)
        IN  /\ Len(rawRows) = Cardinality(good)
            /\ \A i \in good :
                   rawRows[Cardinality({j \in good : j <= i})] = ParseLine(csvContent[i])
            /\ Done /\ failedCalls = <<>> => wrapped.success

C13_Witness ==
    /\ Done
    /\ failedCalls = <<>>
    /\ csvContent = << <<"5", "", "Jalisco", "", "1", "2020", "100,00">>,
                       <<"8", "Nacional", "", "", "1">>,
                       <<"1", "Nacional", "", "", "2", "2020", "150,25">> >>
    /\ Len(rawRows) = 1
    /\ rawRows[1].consecutivo = 1 /\ rawRows[1].global = "Nacional"
    /\ wrapped.success /\ wrapped.recordsProcessed = 1

\* C14: after delete_user_completely(u) no watchlist row of u and no users
\* row of u is left; data_upload_logs has the rows it had, those uploaded by
\* u with uploaded_by NULL and every other one as it was; and the watchlist
\* rows and users rows of the other users are the ones from before the call.
C14_DeletionFrame ==
    deleted.user_id # Null =>
        LET u == deleted.user_id
        IN  /\ \A w \in userWatchlists : w.user_id # u
            /\ \A r \in users : r.id # u
            /\ Len(uploadLogs) = Len(deleted.uploadLogs)
            /\ \A i \in 1..Len(deleted.uploadLogs) :
                   /\ deleted.uploadLogs[i].uploaded_by = u =>
                          uploadLogs[i] = [deleted.uploadLogs[i] EXCEPT !.uploaded_by = Null]
                   /\ deleted.uploadLogs[i].uploaded_by # u =>
                          uploadLogs[i] = deleted.uploadLogs[i]
            /\ userWatchlists = {w \in deleted.userWatchlists : w.user_id # u}
            /\ users = {r \in deleted.users : r.id # u}

C14_Witness ==
    /\ deleted.user_id = "u1"
    /\ \E r \in deleted.users : r.id = "u1"
    /\ \E w \in deleted.userWatchlists : w.user_id = "u1"
    /\ Len(deleted.uploadLogs) = 2
    /\ deleted.uploadLogs[1].uploaded_by = "u1"
    /\ deleted.uploadLogs[2].uploaded_by = "u2"
    /\ uploadLogs[1].uploaded_by = Null
    /\ uploadLogs[2].uploaded_by = "u2"
    /\ \E w \in userWatchlists : w.user_id = "u2"
    /\ users = {[id |-> "u2", email |-> "u2"]}

\* the locations inserted by the run in progress and by the other run
InsertedByBoth ==
    {insertedKeys[i] : i \in 1..Len(insertedKeys)}
        \cup {parked.insertedKeys[i] : i \in 1..Len(parked.insertedKeys)}

\* the key of a stored location
StoredKey(loc) == KeyText(loc.name, loc.type, IF loc.state = Null THEN "" ELSE loc.state)

\* C15: no step prevents or repairs a duplicate: every insert of a location
\* that either of two overlapping runs has made is a stored row of its own,
\* with the key it was inserted for, also when the other run has inserted
\* the same key since the read that found no match.
C15_NoInsertRefusedOrRepaired ==
    \A e \in InsertedByBoth :
        \E loc \in locations : loc.id = e.id /\ StoredKey(loc) = e.key

\* both runs have read the location list before either insert, and both have
\* inserted the same municipality: two stored rows with one (name, type, state)
C15_Witness ==
    \E i \in 1..Len(insertedKeys), j \in 1..Len(parked.insertedKeys) :
        /\ insertedKeys[i].key = parked.insertedKeys[j].key
        /\ insertedKeys[i].key[2] = "municipality"
        /\ \E a, b \in locations :
               /\ a.id = insertedKeys[i].id
               /\ b.id = parked.insertedKeys[j].id
               /\ a.id # b.id
               /\ a.name = b.name /\ a.type = b.type /\ a.state = b.state
               /\ a.state # Null
        /\ Done /\ parked.pc = "done"
        /\ wrapped.success /\ parked.wrapped.success

\* C16: the builder computes, for every residential row to which the
\* resolver gives a key, that same key; so in a run with no failed call a row
\* from which no record is built is a row whose resolver key is not in the
\* location map.
C16_BuilderKeyIsResolverKey ==
    /\ \A i \in 1..Len(residentialRows) :
           ResolverKey(residentialRows[i]) # NoKey =>
               BuilderKey(residentialRows[i]) = ResolverKey(residentialRows[i])
    /\ Done /\ failedCalls = <<>> =>
           \A i \in 1..Len(residentialRows) :
               ~InSeq(i, builtFrom) =>
                   ResolverKey(residentialRows[i]) \notin DOMAIN locationMap

\* the row is classified by one of the rules 1 to 4: national marker, metro
\* zone, state, municipality
IsLocationRow(row) ==
    \/ row.global = "Nacional"
    \/ StartsWithZM(row.global)
    \/ row.estado # "" /\ row.municipio = ""
    \/ row.estado # "" /\ row.municipio # ""

\* C17: a record built from a row classified as national marker, metro
\* zone, state or municipality has no property type, whatever the category
\* of the row.
C17_LocationRowsUntagged ==
    \A k \in 1..Len(priceDataToInsert) :
        IsLocationRow(residentialRows[builtFrom[k]]) =>
            priceDataToInsert[k].property_type_id = Undefined

\* C18: no record is built from a row whose index text is no decimal, and
\* no such record is in a batch sent to storage.
C18_UnparsedIndexSkipped ==
    /\ \A k \in 1..Len(priceDataToInsert) :
           parseFloat(residentialRows[builtFrom[k]].indice) # NaN
    /\ \A b \in 1..Len(batches) : \A k \in 1..Len(batches[b].records) :
           batches[b].records[k].index_value # NaN

\* C19: no record is built from a line whose quarter or year text is no
\* number, and every record in a batch sent to storage has a quarter in
\* 1..4 and a year of at least 2005.
C19_BadQuarterYearSkipped ==
    /\ RecordsOf(12) = {}
    /\ RecordsOf(13) = {}
    /\ \A b \in 1..Len(batches) : \A k \in 1..Len(batches[b].records) :
           /\ batches[b].records[k].quarter \in 1..4
           /\ batches[b].records[k].year >= 2005

\* the label of the row maps to a code that no stored property type has
IsUnresolvedTag(row) ==
    /\ row.global \in propertyTypeLabels
    /\ PropertyTypeId(propertyTypes, propertyTypeMap(row.global)) = Undefined

\* C21: in a run whose storage calls all succeed, every row whose
\* property-type label maps to a code that no stored type has yields a
\* record with no property type, and the run returns success.
C21_UnresolvedTagBuildsRecord ==
    Done /\ failedCalls = <<>> =>
        /\ wrapped.success
        /\ \A i \in 1..Len(residentialRows) : IsUnresolvedTag(residentialRows[i]) =>
               \E k \in 1..Len(priceDataToInsert) :
                   /\ builtFrom[k] = i
                   /\ priceDataToInsert[k].property_type_id = Undefined

\* the batch loop of the run is over
BatchesDone == pc = "updateLog" \/ CallCount("updateLog") > 0

\* the smallest number of batches of at most `size` records that hold n records
CeilDiv(n, size) == (n + size - 1) \div size

\* C22: the batches sent to storage are consecutive slices of the built
\* records in build order, batch k starting right after batch k - 1, each
\* of at least one and at most batchSize records; an upsert is only issued
\* when every earlier one has returned; and once the loop is over there are
\* ceil(n / batchSize) batches for n records, all full but possibly the
\* last, that together hold every record exactly once (none when n = 0).
C22_ConsecutiveBatches ==
    LET n == Len(priceDataToInsert)
    IN  /\ CallCount("upsert") = Len(batches)
        /\ \A k \in 1..Len(batches) :
               /\ batches[k].offset = (k - 1) * batchSize + 1
               /\ batches[k].records =
                      SubSeq(priceDataToInsert, (k - 1) * batchSize + 1, Min(k * batchSize, n))
               /\ Len(batches[k].records) \in 1..batchSize
               /\ k < Len(batches) => Len(batches[k].records) = batchSize
        /\ BatchesDone =>
               /\ Len(batches) = CeilDiv(n, batchSize)
               /\ Concat(batches, 1) = priceDataToInsert

\* three records were written with batch size 2: a full batch, then a batch
\* of one record
C22_Witness ==
    /\ Done
    /\ batchSize = 2
    /\ Len(priceDataToInsert) = 3
    /\ Len(batches) = 2
    /\ Len(batches[1].records) = 2
    /\ Len(batches[2].records) = 1

\* the stage of processCSV a storage call belongs to
StageOf(name) ==
    CASE name = "insertLog" -> 0
      [] name \in {"getLocations", "insertLocation"} -> 1
      [] name = "verifyPropertyTypes" -> 2
      [] name = "getPropertyTypes" -> 3
      [] name = "upsert" -> 4
      [] name = "updateLog" -> 5

\* C23: the storage calls of a run are issued in stage order: the insert of
\* the log entry is the first call and is made once; no location read or
\* insert follows the verification read of the property types, which is
\* made once and before every read of the record builder and every upsert;
\* and the update of the log entry is the last call, made once, after the
\* upsert of every batch of the built records.
C23_CallsInStageOrder ==
    /\ calls # <<>> => calls[1] = "insertLog"
    /\ CallCount("insertLog") <= 1
    /\ CallCount("verifyPropertyTypes") <= 1
    /\ CallCount("updateLog") <= 1
    /\ \A i \in 1..Len(calls) : \A j \in i..Len(calls) :
           StageOf(calls[i]) <= StageOf(calls[j])
    /\ CallCount("upsert") > 0 \/ CallCount("getPropertyTypes") > 0 =>
           CallCount("verifyPropertyTypes") = 1 /\ ~Failed("verifyPropertyTypes")
    /\ CallCount("updateLog") = 1 =>
           /\ calls[Len(calls)] = "updateLog"
           /\ CallCount("verifyPropertyTypes") = 1
           /\ CallCount("upsert") = CeilDiv(Len(priceDataToInsert), batchSize)

\* a run that made a call of every stage, with two batches
C23_Witness ==
    /\ Done
    /\ wrapped.success
    /\ failedCalls = <<>>
    /\ CallCount("getLocations") >= 1
    /\ CallCount("insertLocation") >= 1
    /\ CallCount("getPropertyTypes") >= 1
    /\ CallCount("upsert") = 2
    /\ CallCount("updateLog") = 1

\* C24: no step of an ingestion run removes or changes a stored location,
\* changes the table of property types, or removes a price record, and the
\* only log entry a step changes is the entry of the run that takes it:
\* every other entry stays as it is and none is removed.
C24_RunWritesOnlyItsOwn ==
    [][ /\ locations \subseteq locations'
        /\ propertyTypes' = propertyTypes
        /\ \A r \in priceIndices : \E s \in priceIndices' : s.id = r.id
        /\ Len(uploadLogs') >= Len(uploadLogs)
        /\ \A i \in 1..Len(uploadLogs) : uploadLogs'[i] # uploadLogs[i] => i = logId
      ]_vars

\* a second run has inserted a location, overwritten a stored price record
\* and completed its log entry next to the entry of the first run
C24_Witness ==
    /\ Done
    /\ runs = 2
    /\ Len(uploadLogs) = 2
    /\ uploadLogs[1].status = "completed"
    /\ uploadLogs[2].status = "completed"
    /\ prev.locations # {}
    /\ insertedKeys # <<>>
    /\ \E r \in prev.prices : \E s \in priceIndices :
           s.id = r.id /\ s.index_value # r.index_value

\* the key of a row with the given category, state and municipality, by the
\* four rules in their order of priority; NoKey when no rule applies
ExpectedKey(category, state, municipality) ==
    CASE category = "Nacional" ->
             KeyText("Nacional", "national", "")
      [] category # "Nacional" /\ StartsWithZM(category) ->
             KeyText(category, "metro_zone", "")
      [] category # "Nacional" /\ ~StartsWithZM(category)
         /\ state # "" /\ municipality = "" ->
             KeyText(state, "state", "")
      [] category # "Nacional" /\ ~StartsWithZM(category)
         /\ state # "" /\ municipality # "" ->
             KeyText(municipality, "municipality", state)
      [] OTHER -> NoKey

\* rows i and j have the same category, state and municipality
SameKeyInput(i, j) ==
    /\ residentialRows[i].global = residentialRows[j].global
    /\ residentialRows[i].estado = residentialRows[j].estado
    /\ residentialRows[i].municipio = residentialRows[j].municipio

\* C25: for every row of a run, the key that the location resolver and the
\* record builder derive is the key of the first rule, in the order
\* "Nacional", "ZM " prefix, state alone, state with municipality, that the
\* category, state and municipality of the row match, and the location of
\* that key is among the locations to reconcile; a row that matches no rule
\* and has no property-type label gives no key in either derivation; and
\* two rows with the same category, state and municipality give the same
\* key.
C25_KeyByPriority ==
    \A i \in 1..Len(residentialRows) :
        LET row == residentialRows[i]
            key == ExpectedKey(row.global, row.estado, row.municipio)
        IN  /\ key # NoKey =>
                   /\ ResolverKey(row) = key
                   /\ BuilderKey(row) = key
                   /\ \E k \in 1..Len(locationsToCreate) :
                          locationsToCreate[k] = LocationOfKey(key)
            /\ key = NoKey /\ row.global \notin propertyTypeLabels =>
                   /\ ResolverKey(row) = NoKey
                   /\ BuilderKey(row) = NoKey
            /\ \A j \in 1..Len(residentialRows) : SameKeyInput(i, j) =>
                   /\ ResolverKey(residentialRows[j]) = ResolverKey(row)
                   /\ BuilderKey(residentialRows[j]) = BuilderKey(row)

\* a run on a "ZM " row that also has a state and a municipality, and on a
\* row with a municipality alone: the first has its record on the metro
\* zone, the second has no key and no record
C25_Witness ==
    /\ Done
    /\ wrapped.success
    /\ Len(residentialRows) = 2
    /\ residentialRows[1].consecutivo = 20
    /\ residentialRows[2].consecutivo = 21
    /\ Len(locationsToCreate) = 1
    /\ locationsToCreate[1].type = "metro_zone"
    /\ builtFrom = <<1>>
    /\ \E loc \in locations :
           loc.id = priceDataToInsert[1].location_id /\ loc.type = "metro_zone"

\* the candidates whose text has no replacement character, and those whose
\* text has some
CleanCandidates == {i \in 1..Len(decodes) : decodes[i] = 0}
MarkedCandidates == {i \in 1..Len(decodes) : decodes[i] > 0}

\* C26: the text of a run is that of the first candidate, in the order
\* windows-1252, iso-8859-1, utf-8, whose decoding has no replacement
\* character; when no candidate is clean, that of the candidate with the
\* fewest replacement characters, the earliest of them on a tie; when every
\* candidate fails, the utf-8 decoding of the fallback.  The run only ends
\* at the decoding, with a failure result and no storage call, when the
\* fallback is taken and fails.
C26_EncodingSelection ==
    /\ encodings = <<"windows-1252", "iso-8859-1", "utf-8">>
    /\ decodes # <<>> /\ ~Failed("decode") =>
           /\ CleanCandidates # {} =>
                  \E i \in CleanCandidates :
                      /\ bestEncoding = encodings[i]
                      /\ \A j \in CleanCandidates : i <= j
           /\ CleanCandidates = {} /\ MarkedCandidates # {} =>
                  \E i \in MarkedCandidates :
                      /\ bestEncoding = encodings[i]
                      /\ \A j \in MarkedCandidates :
                             /\ decodes[i] <= decodes[j]
                             /\ decodes[j] = decodes[i] => i <= j
           /\ CleanCandidates = {} /\ MarkedCandidates = {} =>
                  bestEncoding = "utf-8"
           /\ pc # "idle"
    /\ Failed("decode") =>
           /\ MarkedCandidates = {}
           /\ CleanCandidates = {} \/ csvContent = EmptyText
           /\ Done /\ ~wrapped.success /\ calls = <<>>

\* no candidate was clean and the two with the fewest replacement
\* characters tied: the run went on with the text of the earlier one
C26_Witness ==
    /\ Done
    /\ wrapped.success
    /\ decodes = <<2, 1, 1>>
    /\ bestEncoding = "iso-8859-1"
    /\ CallCount("upsert") = 1

\* the log entries that a step takes from another status to completed
NewlyCompleted ==
    {i \in 1..Len(uploadLogs) :
        /\ i <= Len(uploadLogs')
        /\ uploadLogs'[i].status = "completed"
        /\ uploadLogs[i].status # "completed"}

\* C27: a step runs the refresh of the insights once for every log entry
\* whose status it changes from another value to completed, and not
\* otherwise: not when a run fails or its entry stays in processing, and
\* not when an update leaves a completed entry completed.
C27_RefreshOnCompletion ==
    [][refreshes' = refreshes + Cardinality(NewlyCompleted)]_vars

\* the run completed its log entry, which refreshed the insights once, and
\* the deletion of an account has updated completed entries of that user
C27_Witness ==
    /\ Done
    /\ wrapped.success
    /\ RunLog.status = "completed"
    /\ refreshes = 1
    /\ deleted.user_id # Null
    /\ \E i \in 1..Len(deleted.uploadLogs) :
           /\ deleted.uploadLogs[i].uploaded_by = deleted.user_id
           /\ deleted.uploadLogs[i].status = "completed"
           /\ uploadLogs[i].uploaded_by = Null

\* the run inserted the location with the identifier id
InsertedByRun(id) == \E e \in 1..Len(insertedKeys) : insertedKeys[e].id = id

\* the location of record k: a stored location with the key of the row the
\* record was built from, that the run inserted or that was stored when
\* the run started
HasResolvedLocation(k) ==
    LET rec == priceDataToInsert[k]
        row == residentialRows[builtFrom[k]]
    IN  /\ BuilderKey(row) # NoKey
        /\ BuilderKey(row) \in DOMAIN locationMap
        /\ locationMap[BuilderKey(row)] = rec.location_id
        /\ \E loc \in locations :
               /\ loc.id = rec.location_id
               /\ StoredKey(loc) = BuilderKey(row)
               /\ InsertedByRun(loc.id) \/ loc \in prev.locations

\* C28: every record that a run builds, and so every record of a batch it
\* sends to storage, has the identifier that the run holds for the key of
\* the row of the record, and that identifier is the one of a stored
\* location with the name, type and state of the key, which the run read
\* from the location list or inserted itself.
C28_RecordsReferenceResolvedLocations ==
    /\ \A k \in 1..Len(priceDataToInsert) : HasResolvedLocation(k)
    /\ \A b \in 1..Len(batches) : \A k \in 1..Len(batches[b].records) :
           /\ batches[b].offset + k - 1 \in 1..Len(priceDataToInsert)
           /\ batches[b].records[k] = priceDataToInsert[batches[b].offset + k - 1]

\* a second run has sent two records, one on a location it read from the
\* location list and one on a location it inserted
C28_Witness ==
    /\ Done
    /\ runs = 2
    /\ wrapped.success
    /\ Len(batches) = 2
    /\ \E k \in 1..Len(priceDataToInsert) :
           ~InsertedByRun(priceDataToInsert[k].location_id)
    /\ \E k \in 1..Len(priceDataToInsert) :
           InsertedByRun(priceDataToInsert[k].location_id)

\* C29: the result of a run is only success once the update of its log
\* entry to completed is the last call made and has succeeded; the number
\* of records in the result is then the records_processed of the entry,
\* and both are the number of records built, whatever storage accepted.
C29_SuccessAfterLogCompleted ==
    wrapped.success =>
        /\ Done
        /\ LogCreated
        /\ calls[Len(calls)] = "updateLog"
        /\ ~Failed("updateLog")
        /\ RunLog.status = "completed"
        /\ RunLog.records_processed = wrapped.recordsProcessed
        /\ wrapped.recordsProcessed = Len(priceDataToInsert)

\* a run returned success with two records of which storage took one
C29_Witness ==
    /\ Done
    /\ wrapped.success
    /\ wrapped.recordsProcessed = 2
    /\ RunLog.records_processed = 2
    /\ SomeBatchFailed
    /\ Cardinality(priceIndices) = 1

\* C30: when the verification read of the property types fails, the run is
\* over with a failure result; it has made no read of the record builder,
\* no upsert and no log update, so that no price record is written and its
\* log entry stays in processing; and every location it inserted before is
\* still stored.
C30_VerificationFailureKeepsLocations ==
    Failed("verifyPropertyTypes") =>
        /\ Done
        /\ ~wrapped.success
        /\ wrapped.error # Undefined
        /\ calls[Len(calls)] = "verifyPropertyTypes"
        /\ CallCount("getPropertyTypes") = 0
        /\ CallCount("upsert") = 0
        /\ CallCount("updateLog") = 0
        /\ priceIndices = prev.prices
        /\ RunLog.status = "processing"
        /\ \A e \in 1..Len(insertedKeys) :
               \E loc \in locations :
                   loc.id = insertedKeys[e].id /\ StoredKey(loc) = insertedKeys[e].key

\* the run inserted two locations before its verification read failed
C30_Witness ==
    /\ Done
    /\ Failed("verifyPropertyTypes")
    /\ ~wrapped.success
    /\ Len(insertedKeys) = 2
    /\ Cardinality(locations) = 2
    /\ prev.locations = {}

====
